---- MODULE Spec2Model ----
(***************************************************************************)
(* Payment gateway: ingestion queue, admission-gated settlement workers,   *)
(* idempotent persistence, round-robin failover routing, reconciliation    *)
(* and the per-processor summary query.                                    *)
(*                                                                         *)
(* Time is an integer clock; amounts are integers (exact decimals scaled). *)
(***************************************************************************)
EXTENDS Integers, Sequences, FiniteSets, TLC

(* ------------------------------ bounds -------------------------------- *)

\* total number of POST /payments requests of one run
MaxSubmissions == 2
\* cap on the router's attempt counter (unbounded in the code)
MaxAttempts == 4

(* --------------------------- configuration ---------------------------- *)

\* the registry Config.external_processors holds in the runs with processors:
\* names only (endpoints are opaque)
Registry == <<"P0", "P1">>

\* the values Config.external_processors takes when the list may be empty
Registries == {<<>>, Registry}

\* Config.max_wait_millis, the floor of every sleep
max_wait_millis == 2

\* how a processor answers: every call 2xx, every call non-2xx/transport
\* failure, or either on each call
Behaviours == {"always200", "always500", "flaky"}

\* SQL NULL of the processed_by column
NULL == "NULL"

\* the query handler's defaults for a missing from / to
DefaultFrom == 0
DefaultTo == 9999

\* Option<DateTime>: a missing query parameter is the empty set, a present
\* one the singleton of its instant
None == {}
Some(t) == {t}

\* the correlation ids clients send
CorrelationIds == {1, 2}

\* the amounts and requested_at stamps of the payments explored: a cheap
\* early payment and a dearer later one
PaymentInputs ==
    {[amount |-> 1, requested_at |-> 1], [amount |-> 2, requested_at |-> 2]}

\* the values Config.max_in_flight takes in the runs explored
InFlightLimits == {1, 2}

\* the processor outages explored, each in [names -> Behaviours]: both
\* processors unreliable, the first down and the second up, and both down
Outages ==
    {[n \in {"P0", "P1"} |-> "flaky"],
     [n \in {"P0", "P1"} |-> IF n = "P0" THEN "always500" ELSE "always200"],
     [n \in {"P0", "P1"} |-> "always500"]}

VARIABLES
    queue,          \* the channel between new_payment and run_forever
    workers,        \* the tasks run_forever has spawned, in spawn order
    log,            \* table payments.log, rows in insertion order
    in_flight,      \* the AtomicUsize of run_forever
    max_in_flight,  \* Config.max_in_flight
    behaviour,      \* per processor, how it answers
    external_processors, \* EXTERNAL_PROCESSORS: the ordered registry
    response,       \* the body of the last GET /payments-summary answer
    status,         \* the status of the last POST /payments answer
    receiver_open,  \* the channel's receiving half has not been dropped
    settlements     \* <<correlation id, name>>: what each processor accepted

\* what is set once at startup
config == <<max_in_flight, behaviour, external_processors>>

\* what the HTTP boundary and the channel's far end hold
boundary == <<response, status, receiver_open>>

vars == <<queue, workers, log, in_flight, config, boundary, settlements>>

Range(s) == {s[i] : i \in DOMAIN s}

ProcessorNames == Range(Registry)

(* ------------------------------ the store ----------------------------- *)

\* the unique constraint on payments.log.id
UniqueViolation(tbl, id) == \E i \in DOMAIN tbl : tbl[i].id = id

\* mutant: the insert overwrites the amount and stamp of a row that exists
\* (an upsert) before it reports the conflict
insert_overwrite(tbl, id, amount, requested_at) ==
    IF UniqueViolation(tbl, id)
    THEN [result |-> "unique_violation",
          tbl |-> [i \in DOMAIN tbl |->
                      IF tbl[i].id = id
                      THEN [tbl[i] EXCEPT !.amount = amount,
                                          !.requested_at = requested_at]
                      ELSE tbl[i]]]
    ELSE [result |-> "ok",
          tbl |-> Append(tbl, [id |-> id, amount |-> amount,
                               requested_at |-> requested_at,
                               processed_by |-> NULL])]

\* repository::insert: the statement names id, amount, requested_at;
\* processed_by takes the column's NULL
insert(tbl, id, amount, requested_at) ==
    IF UniqueViolation(tbl, id)
    THEN [result |-> "unique_violation", tbl |-> tbl]
    ELSE [result |-> "ok",
          tbl |-> Append(tbl, [id |-> id, amount |-> amount,
                               requested_at |-> requested_at,
                               processed_by |-> NULL])]

\* repository::set_processed_by: update ... set processed_by = $2 where id = $1
update_processed_by(tbl, id, processed_by) ==
    [i \in DOMAIN tbl |->
        IF tbl[i].id = id
        THEN [tbl[i] EXCEPT !.processed_by = processed_by]
        ELSE tbl[i]]

(* ------------------------------ ingestion ----------------------------- *)

Submitted == Len(queue) + Len(workers)

\* UnboundedSender::send: Err once the receiving half is gone, else the
\* message joins the channel whatever the channel already holds
send(q, open, payment) ==
    IF open
    THEN [result |-> "Ok", queue |-> Append(q, payment)]
    ELSE [result |-> "Err", queue |-> q]

\* mutant: the handler answers CREATED whatever send returned
status_of_always_created(result) == "CREATED"

\* the match of new_payment on what send returned
status_of(result) ==
    IF result = "Ok" THEN "CREATED" ELSE "INTERNAL_SERVER_ERROR"

\* POST /payments: the payment (Payment: correlation_id, amount and its
\* requested_at stamp) is sent on the unbounded channel and the answer is
\* the status the send maps to
new_payment(id, amount, requested_at) ==
    /\ Submitted < MaxSubmissions
    /\ LET r == send(queue, receiver_open,
                     [correlation_id |-> id, amount |-> amount,
                      requested_at |-> requested_at])
       IN /\ queue' = r.queue
          /\ status' = status_of(r.result)
    /\ UNCHANGED <<workers, log, in_flight, config, response, receiver_open,
                   settlements>>

\* the task that owns the Processor ends (the runtime shuts down): the
\* receiving half is dropped and with it what the channel still held
ReceiverDropped ==
    /\ receiver_open
    /\ receiver_open' = FALSE
    /\ queue' = <<>>
    /\ UNCHANGED <<workers, log, in_flight, config, response, status,
                   settlements>>

(* ------------------------------ dispatcher ---------------------------- *)

\* the task run_forever spawns for one drained payment, before its first step
SpawnedTask(payment) ==
    [payment |-> payment, pc |-> "gate", attempts |-> 0, tried |-> <<>>,
     waited |-> <<>>, inserted |-> "pending", accepted_by |-> 0,
     processed_by |-> NULL]

\* mutant: the dispatcher looks at the counter and drains only below the limit
run_forever_gated ==
    /\ receiver_open
    /\ queue # <<>>
    /\ in_flight < max_in_flight
    /\ workers' = workers \o [i \in DOMAIN queue |-> SpawnedTask(queue[i])]
    /\ queue' = <<>>
    /\ UNCHANGED <<log, in_flight, config, boundary, settlements>>

\* one pass of run_forever's loop: drain the channel, spawn one task each
\* (a pass over an empty channel spawns nothing and only sleeps)
run_forever ==
    /\ receiver_open
    /\ queue # <<>>
    /\ workers' = workers \o [i \in DOMAIN queue |-> SpawnedTask(queue[i])]
    /\ queue' = <<>>
    /\ UNCHANGED <<log, in_flight, config, boundary, settlements>>

(* ---------------------------- admission gate -------------------------- *)

\* the loop condition of the gate, negated: the load lets the task through
gate_open(count, max) == ~(count >= max)

\* in_flight.load() >= max_in_flight: sleep and poll again
GateWait(w) ==
    /\ w \in DOMAIN workers
    /\ workers[w].pc = "gate"
    /\ ~gate_open(in_flight, max_in_flight)
    /\ UNCHANGED vars

\* the load saw a free slot; the increment is a later, separate atomic
GatePass(w) ==
    /\ w \in DOMAIN workers
    /\ workers[w].pc = "gate"
    /\ gate_open(in_flight, max_in_flight)
    /\ workers' = [workers EXCEPT ![w].pc = "admitted"]
    /\ UNCHANGED <<queue, log, in_flight, config, boundary, settlements>>

\* in_flight.fetch_add(1)
FetchAdd(w) ==
    /\ w \in DOMAIN workers
    /\ workers[w].pc = "admitted"
    /\ in_flight' = in_flight + 1
    /\ workers' = [workers EXCEPT ![w].pc = "insert"]
    /\ UNCHANGED <<queue, log, config, boundary, settlements>>

(* ------------------------------ PersistOnce --------------------------- *)

\* mutant: the uniqueness conflict is taken for a success, so a duplicate is
\* routed and reconciled a second time
maybe_insert_into_db_no_skip(result) ==
    CASE result = "ok" -> "some"
      [] result = "unique_violation" -> "some"
      [] OTHER -> "retry"

\* mutant: any other error is taken for a success, so the task goes on to
\* route a payment that may have no row
maybe_insert_into_db_ignore_error(result) ==
    CASE result = "ok" -> "some"
      [] result = "unique_violation" -> "none"
      [] OTHER -> "some"

\* what maybe_insert_into_db does with one answer of repository::insert
maybe_insert_into_db(result) ==
    CASE result = "ok" -> "some"
      [] result = "unique_violation" -> "none"
      [] OTHER -> "retry"

\* the task after maybe_insert_into_db saw `result`; a None ends the task
AfterInsert(task, result) ==
    LET next == maybe_insert_into_db(result) IN
    CASE next = "some" -> [task EXCEPT !.pc = "route", !.inserted = "ok"]
      [] next = "none" -> [task EXCEPT !.pc = "done", !.inserted = "dup"]
      [] OTHER -> task

\* mutant: the duplicate path returns without the fetch_sub
Released_not_on_duplicate(count, task) ==
    IF task.pc = "done" /\ task.inserted = "ok" THEN count - 1 ELSE count

\* in_flight.fetch_sub(1) when the task has ended
Released(count, task) == IF task.pc = "done" THEN count - 1 ELSE count

\* the store executes the insert and its answer reaches the task
InsertAnswered(w) ==
    /\ w \in DOMAIN workers
    /\ workers[w].pc = "insert"
    /\ LET p == workers[w].payment
           r == insert(log, p.correlation_id, p.amount, p.requested_at)
           t == AfterInsert(workers[w], r.result)
       IN /\ log' = r.tbl
          /\ workers' = [workers EXCEPT ![w] = t]
          /\ in_flight' = Released(in_flight, t)
    /\ UNCHANGED <<queue, config, boundary, settlements>>

\* the call ends in another sqlx::Error: the statement never ran
\* (applied = FALSE), or it ran and its answer was lost (applied = TRUE)
InsertFailed(w, applied) ==
    /\ w \in DOMAIN workers
    /\ workers[w].pc = "insert"
    /\ LET p == workers[w].payment
           r == insert(log, p.correlation_id, p.amount, p.requested_at)
           t == AfterInsert(workers[w], "error")
       IN /\ log' = IF applied THEN r.tbl ELSE log
          /\ workers' = [workers EXCEPT ![w] = t]
          /\ in_flight' = Released(in_flight, t)
    /\ UNCHANGED <<queue, config, boundary, settlements>>

(* -------------------------------- Route ------------------------------- *)

\* the attempts all spawned tasks have made, taken together
RECURSIVE total_attempts(_)
total_attempts(tasks) ==
    IF tasks = <<>> THEN 0
    ELSE Head(tasks).attempts + total_attempts(Tail(tasks))

\* mutant: one attempt counter shared by every routing call
target_index_shared(attempts) ==
    (total_attempts(workers) % Len(external_processors)) + 1

\* mutant: the target is picked after the attempt has been counted
target_index_after_count(attempts) ==
    ((attempts + 1) % Len(external_processors)) + 1

\* &external_processors[attempts % external_processors.len()], 1-based
target_index(attempts) == (attempts % Len(external_processors)) + 1

\* mutant: the name returned is that of the registry's first entry
returned_name_first(target) == external_processors[1]

\* target.name.clone()
returned_name(target) == external_processors[target]

\* what the client sees of one POST: a 2xx; a non-2xx or a transport error
\* of a call the processor did not accept ("failed"); or the client's
\* timeout of a call the processor did accept ("timeout")
Answers(name) ==
    CASE behaviour[name] = "always200" -> {"2xx"}
      [] behaviour[name] = "always500" -> {"failed"}
      [] OTHER -> {"2xx", "failed", "timeout"}

\* the processor's side of one POST: it has the payment when it answered 2xx,
\* in time or not
Accepted(answer) == answer \in {"2xx", "timeout"}

\* mutant: the smaller of the two durations
wait_duration_min(attempts, max_wait) ==
    IF attempts <= max_wait THEN attempts ELSE max_wait

\* Duration::from_millis(attempts).max(max_wait_between_attempts)
wait_duration(attempts, max_wait) ==
    IF attempts >= max_wait THEN attempts ELSE max_wait

\* one iteration of submit_external_processor's loop: pick the target, count
\* the attempt, post; a 2xx returns the target's name, anything else sleeps
\* wait_duration of the attempts counted so far and loops
submit_external_processor(w, answer) ==
    /\ w \in DOMAIN workers
    /\ workers[w].pc = "route"
    /\ workers[w].attempts < MaxAttempts
    /\ external_processors # <<>>
    /\ LET target == target_index(workers[w].attempts)
           id == workers[w].payment.correlation_id
       IN
       /\ answer \in Answers(external_processors[target])
       /\ workers' = [workers EXCEPT
              ![w].attempts = @ + 1,
              ![w].tried = Append(@, target),
              ![w].waited =
                  IF answer = "2xx"
                  THEN @
                  ELSE Append(@, wait_duration(workers[w].attempts + 1,
                                               max_wait_millis)),
              ![w].pc = IF answer = "2xx" THEN "reconcile" ELSE @,
              ![w].accepted_by = IF answer = "2xx" THEN target ELSE @,
              ![w].processed_by =
                  IF answer = "2xx" THEN returned_name(target) ELSE @]
       /\ settlements' =
              IF Accepted(answer)
              THEN settlements \cup {<<id, external_processors[target]>>}
              ELSE settlements
    /\ UNCHANGED <<queue, log, in_flight, config, boundary>>

\* the remainder by external_processors.len() = 0 panics: the task ends
\* where it stands, before the fetch_sub
submit_panics(w) ==
    /\ w \in DOMAIN workers
    /\ workers[w].pc = "route"
    /\ external_processors = <<>>
    /\ workers' = [workers EXCEPT ![w].pc = "panicked"]
    /\ UNCHANGED <<queue, log, in_flight, config, boundary, settlements>>

(* ------------------------------ Reconcile ----------------------------- *)

\* mutant: the update is tried once and its error is dropped
set_processed_by_once(result) == "return"

\* what set_processed_by does with one answer of repository::set_processed_by
set_processed_by(result) == IF result = "ok" THEN "return" ELSE "retry"

\* the task after set_processed_by saw `result`; a return ends the task
AfterUpdate(task, result) ==
    IF set_processed_by(result) = "return"
    THEN [task EXCEPT !.pc = "done"]
    ELSE task

\* the store executes the update and its answer reaches the task
UpdateAnswered(w) ==
    /\ w \in DOMAIN workers
    /\ workers[w].pc = "reconcile"
    /\ LET t == AfterUpdate(workers[w], "ok") IN
       /\ log' = update_processed_by(log, workers[w].payment.correlation_id,
                                     workers[w].processed_by)
       /\ workers' = [workers EXCEPT ![w] = t]
       /\ in_flight' = Released(in_flight, t)
    /\ UNCHANGED <<queue, config, boundary, settlements>>

\* the call ends in an sqlx::Error, the statement applied or not
UpdateFailed(w, applied) ==
    /\ w \in DOMAIN workers
    /\ workers[w].pc = "reconcile"
    /\ LET t == AfterUpdate(workers[w], "error") IN
       /\ log' = IF applied
                 THEN update_processed_by(log,
                          workers[w].payment.correlation_id,
                          workers[w].processed_by)
                 ELSE log
       /\ workers' = [workers EXCEPT ![w] = t]
       /\ in_flight' = Released(in_flight, t)
    /\ UNCHANGED <<queue, config, boundary, settlements>>

(* ------------------------------- summary ------------------------------ *)

\* sum(amount) over a list of rows
RECURSIVE sum_amount(_)
sum_amount(rows) ==
    IF rows = <<>> THEN 0 ELSE Head(rows).amount + sum_amount(Tail(rows))

\* mutant: the window is closed at its end
in_window_closed(row, names, from, to) ==
    /\ row.processed_by \in Range(names)
    /\ row.requested_at >= from
    /\ row.requested_at <= to

\* the where clause of the summaries CTE; NULL = any(...) is not true
in_window(row, names, from, to) ==
    /\ row.processed_by \in Range(names)
    /\ row.requested_at >= from
    /\ row.requested_at < to

\* the summaries CTE: one row per processed_by among the rows selected
summaries(tbl, names, from, to) ==
    LET selected == SelectSeq(tbl, LAMBDA r : in_window(r, names, from, to))
        group(n) == SelectSeq(selected, LAMBDA r : r.processed_by = n)
    IN {[name |-> n,
         total_amount |-> sum_amount(group(n)),
         total_requests |-> Len(group(n))] :
            n \in {selected[i].processed_by : i \in DOMAIN selected}}

\* mutant: an inner join, which keeps only the processors that have a group
summary_inner_join(tbl, names, from, to) ==
    LET s == summaries(tbl, names, from, to) IN
    [p \in {g.name : g \in s} |->
        LET g == CHOOSE g \in s : g.name = p
        IN [totalAmount |-> g.total_amount,
            totalRequests |-> g.total_requests]]

\* repository::summary: processors left join summaries, NULLs coalesced to
\* 0, aggregated into one JSON object keyed by processor name
summary(tbl, names, from, to) ==
    LET s == summaries(tbl, names, from, to) IN
    [p \in Range(names) |->
        IF \E g \in s : g.name = p
        THEN LET g == CHOOSE g \in s : g.name = p
             IN [totalAmount |-> g.total_amount,
                 totalRequests |-> g.total_requests]
        ELSE [totalAmount |-> 0, totalRequests |-> 0]]

\* Option::unwrap_or_else
unwrap_or_else(opt, default) ==
    IF opt = None THEN default ELSE CHOOSE t \in opt : TRUE

\* GET /payments-summary: default the window, ask the store, answer its JSON
get_summary(from, to) ==
    /\ response' =
           [answered |-> TRUE, from |-> from, to |-> to,
            body |-> summary(log, external_processors,
                             unwrap_or_else(from, DefaultFrom),
                             unwrap_or_else(to, DefaultTo))]
    /\ UNCHANGED <<queue, workers, log, in_flight, config, status,
                   receiver_open, settlements>>

(* ----------------------------- specification -------------------------- *)

\* no GET /payments-summary has been answered yet
NoResponse == [answered |-> FALSE, from |-> None, to |-> None, body |-> <<>>]

Init ==
    /\ queue = <<>>
    /\ workers = <<>>
    /\ log = <<>>
    /\ in_flight = 0
    /\ max_in_flight \in InFlightLimits
    /\ behaviour \in Outages
    /\ external_processors = Registry
    /\ response = NoResponse
    /\ status = "none"
    /\ receiver_open = TRUE
    /\ settlements = {}

\* the indices spawned tasks can have
Tasks == 1..MaxSubmissions

\* every step one spawned task can take
WorkerStep(w) ==
    /\ w \in DOMAIN workers
    /\ \/ GateWait(w)
       \/ GatePass(w)
       \/ FetchAdd(w)
       \/ InsertAnswered(w)
       \/ \E applied \in BOOLEAN : InsertFailed(w, applied)
       \/ \E answer \in {"2xx", "failed"} : submit_external_processor(w, answer)
       \/ UpdateAnswered(w)
       \/ \E applied \in BOOLEAN : UpdateFailed(w, applied)

Next ==
    \/ \E id \in CorrelationIds, p \in PaymentInputs :
           new_payment(id, p.amount, p.requested_at)
    \/ run_forever
    \/ \E w \in Tasks : GateWait(w)
    \/ \E w \in Tasks : GatePass(w)
    \/ \E w \in Tasks : FetchAdd(w)
    \/ \E w \in Tasks : InsertAnswered(w)
    \/ \E w \in Tasks, applied \in BOOLEAN : InsertFailed(w, applied)
    \/ \E w \in Tasks, answer \in {"2xx", "failed"} :
           submit_external_processor(w, answer)
    \/ \E w \in Tasks : UpdateAnswered(w)
    \/ \E w \in Tasks, applied \in BOOLEAN : UpdateFailed(w, applied)

Spec == Init /\ [][Next]_vars

\* liveness is explored with one admission slot, so that tasks wait at the
\* gate, and with processors that are steadily up or steadily down
InitFair ==
    /\ Init
    /\ max_in_flight = 1
    /\ \A n \in ProcessorNames : behaviour[n] # "flaky"

\* the runtime keeps polling every spawned task and the dispatcher loop: a
\* step that stays possible is eventually taken. For a store call this means
\* the call is eventually answered; a processor may still fail every call.
FairSpec ==
    /\ InitFair
    /\ [][Next]_vars
    /\ WF_vars(run_forever)
    /\ \A w \in Tasks : WF_vars(WorkerStep(w))

\* the <<from, to>> parameters of the queries explored: no bounds, a window
\* that starts at one stamp and ends at the other, and a lower bound alone
Windows == {<<None, None>>, <<Some(1), Some(2)>>, <<Some(2), None>>}

\* the pipeline together with the query boundary
NextQuery ==
    \/ Next
    \/ \E win \in Windows : get_summary(win[1], win[2])

\* queries are explored with P0 unreliable and P1 up, so that either may
\* settle a payment, and with one admission slot
InitQuery ==
    /\ queue = <<>>
    /\ workers = <<>>
    /\ log = <<>>
    /\ in_flight = 0
    /\ max_in_flight = 1
    /\ behaviour = [n \in ProcessorNames |->
                        IF n = "P0" THEN "flaky" ELSE "always200"]
    /\ external_processors = Registry
    /\ response = NoResponse
    /\ status = "none"
    /\ receiver_open = TRUE
    /\ settlements = {}

SpecQuery == InitQuery /\ [][NextQuery]_vars

\* the first processor down and the second up
FirstDown ==
    [n \in ProcessorNames |-> IF n = "P0" THEN "always500" ELSE "always200"]

\* the pipeline together with the end of the dispatcher's task
NextIngest ==
    \/ Next
    \/ ReceiverDropped

\* the closed channel is explored with one admission slot and FirstDown
InitIngest ==
    /\ Init
    /\ max_in_flight = 1
    /\ behaviour = FirstDown

SpecIngest == InitIngest /\ [][NextIngest]_vars

\* the pipeline together with the router's panic
NextRegistry ==
    \/ Next
    \/ \E w \in Tasks : submit_panics(w)

\* Config.external_processors is whatever list the configuration file
\* holds, the empty one included
InitRegistry ==
    /\ queue = <<>>
    /\ workers = <<>>
    /\ log = <<>>
    /\ in_flight = 0
    /\ max_in_flight = 1
    /\ behaviour = FirstDown
    /\ external_processors \in Registries
    /\ response = NoResponse
    /\ status = "none"
    /\ receiver_open = TRUE
    /\ settlements = {}

SpecRegistry == InitRegistry /\ [][NextRegistry]_vars

\* the pipeline together with the calls a processor accepts and the client
\* times out on; to the task such a call is one more failed call
NextSettle ==
    \/ Next
    \/ \E w \in Tasks : submit_external_processor(w, "timeout")

\* settlements are explored with one admission slot and both processors
\* unreliable
InitSettle ==
    /\ Init
    /\ max_in_flight = 1
    /\ \A n \in ProcessorNames : behaviour[n] = "flaky"

SpecSettle == InitSettle /\ [][NextSettle]_vars

(* ------------------------- views used by the claims ------------------- *)

\* the tasks between the gate and their fetch_sub
Active == {w \in DOMAIN workers :
              workers[w].pc \in {"admitted", "insert", "route", "reconcile"}}

\* the tasks that have begun PersistOnce (and may have ended since)
BegunPersist == {w \in DOMAIN workers :
                    workers[w].pc \in {"insert", "route", "reconcile", "done"}}

\* the rows of payments.log with a given id
RowsOf(id) == {i \in DOMAIN log : log[i].id = id}

\* the tasks spawned for a given correlation id
TasksOf(id) == {w \in DOMAIN workers : workers[w].payment.correlation_id = id}

\* the tasks of an id whose maybe_insert_into_db returned Some
Winners(id) == {w \in TasksOf(id) : workers[w].inserted = "ok"}

(* ------------------------------- claims ------------------------------- *)

\* C1: the number of tasks past the admission gate that have not yet
\* decremented the counter, and the counter itself, never exceed
\* max_in_flight.
C1_AdmissionBound ==
    /\ in_flight <= max_in_flight
    /\ Cardinality(Active) <= max_in_flight

\* C2: the store never holds two rows for one correlation id, holds one as
\* soon as a task saw its insert succeed, and once every task of an id has
\* left PersistOnce exactly one of them saw success and the others saw the
\* uniqueness conflict.
C2_Idempotency ==
    \A id \in CorrelationIds :
        /\ Cardinality(RowsOf(id)) <= 1
        /\ Winners(id) # {} => Cardinality(RowsOf(id)) = 1
        /\ Cardinality(Winners(id)) <= 1
        /\ (/\ TasksOf(id) # {}
            /\ \A w \in TasksOf(id) : workers[w].inserted # "pending")
           => /\ Cardinality(Winners(id)) = 1
              /\ \A w \in TasksOf(id) \ Winners(id) :
                     workers[w].inserted = "dup"

\* C3: with max_in_flight = 1, a task spawned after another has not begun
\* PersistOnce until the earlier one has run its whole pipeline and
\* decremented the counter.
C3_Serialization ==
    max_in_flight = 1 =>
        \A x \in DOMAIN workers, y \in DOMAIN workers :
            (x < y /\ y \in BegunPersist) => workers[x].pc = "done"

\* C6: a row's processed_by, once set, names the target that answered 2xx
\* to the last routing attempt of the task that inserted the row; a
\* processor that always answers 500 is never named, and with P0 always 500
\* and P1 always 200 a finished payment is attributed to P1.
C6_FailoverAttribution ==
    \A i \in DOMAIN log :
        /\ log[i].processed_by # NULL =>
              \E w \in Winners(log[i].id) :
                  /\ workers[w].accepted_by # 0
                  /\ workers[w].tried[Len(workers[w].tried)]
                         = workers[w].accepted_by
                  /\ log[i].processed_by
                         = external_processors[workers[w].accepted_by]
                  /\ behaviour[log[i].processed_by] # "always500"
        /\ (/\ behaviour["P0"] = "always500"
            /\ behaviour["P1"] = "always200"
            /\ \E w \in Winners(log[i].id) : workers[w].pc = "done")
           => log[i].processed_by = "P1"

\* C6 witness: a payment settled by P1 while P0 always answers 500.
C6_Witness ==
    /\ behaviour["P0"] = "always500"
    /\ \E i \in DOMAIN log : log[i].processed_by = "P1"
    /\ \E w \in DOMAIN workers :
           workers[w].pc = "done" /\ workers[w].tried = <<1, 2>>

\* C7: attempt k (0-indexed) of every routing call goes to
\* targets[k mod N]; after three failures and a success on two processors
\* the targets tried are P0, P1, P0, P1 and the name returned is P1.
C7_RoundRobin ==
    \A w \in DOMAIN workers :
        LET tried == workers[w].tried
            N == Len(external_processors)
        IN /\ Len(tried) = workers[w].attempts
           /\ \A k \in 0..(Len(tried) - 1) : tried[k + 1] = (k % N) + 1
           /\ (Len(tried) = 4 /\ workers[w].accepted_by # 0) =>
                 /\ [k \in 1..4 |-> external_processors[tried[k]]]
                        = <<"P0", "P1", "P0", "P1">>
                 /\ workers[w].processed_by = "P1"

\* C7 witness: a routing call that failed three times and then succeeded.
C7_Witness ==
    \E w \in DOMAIN workers :
        /\ Len(workers[w].tried) = 4
        /\ workers[w].pc = "reconcile"

\* C8: a row is created with processed_by NULL, and a processed_by that has
\* been set never changes again, whatever duplicates and retried updates
\* follow.
C8_WriteOnce ==
    [][\A i \in DOMAIN log' :
           IF i \in DOMAIN log
           THEN /\ log'[i].id = log[i].id
                /\ log[i].processed_by # NULL
                       => log'[i].processed_by = log[i].processed_by
           ELSE log'[i].processed_by = NULL]_vars

\* C8 witness: a settled row whose correlation id was submitted twice, the
\* duplicate having been turned away.
C8_Witness ==
    \E i \in DOMAIN log :
        /\ log[i].processed_by # NULL
        /\ Cardinality(TasksOf(log[i].id)) >= 2
        /\ \A w \in TasksOf(log[i].id) : workers[w].pc = "done"

(* --------------------------- summary claims --------------------------- *)

\* the rows settled by processor p whose requested_at lies in [from, to),
\* a missing bound admitting every instant on its side
SettledInWindow(tbl, p, from, to) ==
    {i \in DOMAIN tbl :
        /\ tbl[i].processed_by = p
        /\ \A f \in from : f <= tbl[i].requested_at
        /\ \A t \in to : tbl[i].requested_at < t}

\* the amounts of a set of rows, added up
RECURSIVE TotalOf(_, _)
TotalOf(tbl, rows) ==
    IF rows = {} THEN 0
    ELSE LET i == CHOOSE i \in rows : TRUE
         IN tbl[i].amount + TotalOf(tbl, rows \ {i})

\* an answer agrees with a table on every configured processor
AnswerMatches(answer, tbl) ==
    \A p \in ProcessorNames :
        LET rows == SettledInWindow(tbl, p, answer.from, answer.to) IN
        /\ p \in DOMAIN answer.body
        /\ answer.body[p].totalRequests = Cardinality(rows)
        /\ answer.body[p].totalAmount = TotalOf(tbl, rows)

\* C9: every answer to a summary query gives, for each configured
\* processor, the number of rows it settled with from <= requested_at < to
\* and the exact sum of their amounts; unsettled rows count for nobody.
\* (Only a query step changes the response, and it leaves the table alone.)
C9_SummaryTotals ==
    [][response' # response =>
           /\ response'.answered
           /\ log' = log
           /\ AnswerMatches(response', log)]_vars

\* C9 witness: an answer for the window [1, 2) over a table holding a row
\* settled at instant 1 and a row settled by the same processor at instant
\* 2; the first is counted, the second is not.
C9_Witness ==
    /\ response.answered
    /\ response.from = Some(1)
    /\ response.to = Some(2)
    /\ AnswerMatches(response, log)
    /\ \E i \in DOMAIN log, j \in DOMAIN log :
           /\ log[i].requested_at = 1
           /\ log[j].requested_at = 2
           /\ log[i].processed_by # NULL
           /\ log[j].processed_by = log[i].processed_by
           /\ response.body[log[i].processed_by]
                  = [totalAmount |-> log[i].amount, totalRequests |-> 1]

\* C10: every answer to a summary query has an entry for exactly the
\* configured processor names, and a processor with no settled row in the
\* window has totalAmount 0 and totalRequests 0.
C10_SummaryComplete ==
    [][response' # response =>
           /\ DOMAIN response'.body = ProcessorNames
           /\ \A p \in ProcessorNames :
                  SettledInWindow(log, p, response'.from, response'.to) = {}
                      => response'.body[p]
                             = [totalAmount |-> 0, totalRequests |-> 0]]_vars

\* C10 witness: an answer in which one processor has settled payments and
\* the other appears with zeros.
C10_Witness ==
    /\ response.answered
    /\ AnswerMatches(response, log)
    /\ \E p \in ProcessorNames, q \in ProcessorNames :
           /\ response.body[p].totalRequests > 0
           /\ response.body[q] = [totalAmount |-> 0, totalRequests |-> 0]
           /\ SettledInWindow(log, q, response.from, response.to) = {}

(* --------------------------- liveness claims -------------------------- *)

\* some processor answers 2xx to every call
SomeProcessorUp == \E n \in ProcessorNames : behaviour[n] = "always200"

\* the row of an id carries a processor name
Settled(id) == \E i \in RowsOf(id) : log[i].processed_by # NULL

\* the k-th submitted payment has been drained and its PersistOnce has
\* returned, with a success or with the uniqueness conflict
Persisted(k) == k \in DOMAIN workers /\ workers[k].inserted # "pending"

\* C4: with a processor that always answers 2xx and store calls that are
\* eventually answered, every id that has a row eventually has its
\* processed_by set; and the router returns only after a 2xx.
C4_EventualSettlement ==
    /\ \A id \in CorrelationIds :
           (SomeProcessorUp /\ RowsOf(id) # {}) ~> Settled(id)
    /\ [](\A w \in DOMAIN workers :
              workers[w].processed_by # NULL => workers[w].accepted_by # 0)

C11_IngestionOutcome ==
    [][/\ Len(queue') > Len(queue) =>
              /\ receiver_open
              /\ status' = "CREATED"
              /\ queue' = Append(queue, queue'[Len(queue')])
              /\ UNCHANGED <<workers, log, settlements>>
       /\ (status' # status /\ status' = "CREATED") =>
              Len(queue') = Len(queue) + 1
       /\ (status' # status /\ status' = "INTERNAL_SERVER_ERROR") =>
              /\ ~receiver_open
              /\ UNCHANGED <<queue, workers, log, in_flight, settlements>>
       /\ ~receiver_open => queue' = <<>> /\ Len(workers') = Len(workers)
      ]_vars

\* C11 witness: a first POST was accepted and its task spawned, then the
\* receiving half went away and a second POST was answered with the error;
\* there is still the one task.
C11_Witness ==
    /\ status = "INTERNAL_SERVER_ERROR"
    /\ ~receiver_open
    /\ Len(workers) = 1
    /\ queue = <<>>

(* ---------------------------- pipeline claims ------------------------- *)

\* C12: a task whose insert meets the uniqueness conflict ends there: it has
\* made no call to a processor and holds no name to write, and the step that
\* meets the conflict leaves every row of the table as it was (whatever the
\* amount the duplicate carries), changes no HTTP answer and no processor,
\* and takes exactly one off the counter.
C12_DuplicateSkipFrame ==
    [][\A w \in DOMAIN workers :
           workers'[w].inserted = "dup" =>
               /\ workers'[w].pc = "done"
               /\ workers'[w].attempts = 0
               /\ workers'[w].tried = <<>>
               /\ workers'[w].accepted_by = 0
               /\ workers'[w].processed_by = NULL
               /\ workers[w].inserted # "dup" =>
                      /\ log' = log
                      /\ in_flight' = in_flight - 1
                      /\ UNCHANGED <<boundary, settlements>>
      ]_vars

\* C12 witness: a task skipped as a duplicate although its payment carries
\* another amount than the row of its id, which another task wrote.
C12_Witness ==
    \E w \in DOMAIN workers :
        /\ workers[w].inserted = "dup"
        /\ Winners(workers[w].payment.correlation_id) # {}
        /\ \E i \in RowsOf(workers[w].payment.correlation_id) :
               log[i].amount # workers[w].payment.amount

\* the tasks that have run the fetch_add and not yet ended
Holding == {w \in DOMAIN workers :
                workers[w].pc \in {"insert", "route", "reconcile"}}

\* the tasks that have ended, by returning or by a panic
Ended == {w \in DOMAIN workers : workers[w].pc \in {"done", "panicked"}}

\* C13: every task that incremented the counter decrements it when it ends,
\* however it ends: the counter equals the number of tasks between their
\* increment and their end, is never negative, and is 0 once every spawned
\* task has ended.
C13_CounterRelease ==
    /\ in_flight = Cardinality(Holding)
    /\ in_flight >= 0
    /\ (queue = <<>> /\ Ended = DOMAIN workers) => in_flight = 0

\* C14: within one payment the steps are ordered: a task posts to a
\* processor only after its own insert has succeeded (the row of its id
\* exists), and a processed_by is written only by a task at its reconcile
\* step that holds a 2xx from the processor it names. Tasks of different
\* payments are not ordered among themselves.
C14_StepOrdering ==
    [][/\ \A w \in DOMAIN workers :
              workers'[w].attempts > workers[w].attempts =>
                  /\ workers[w].inserted = "ok"
                  /\ RowsOf(workers[w].payment.correlation_id) # {}
       /\ \A i \in DOMAIN log :
              log'[i].processed_by # log[i].processed_by =>
                  \E w \in TasksOf(log[i].id) :
                      /\ workers[w].pc = "reconcile"
                      /\ workers[w].accepted_by # 0
                      /\ workers[w].processed_by = log'[i].processed_by
                      /\ <<log[i].id, log'[i].processed_by>> \in settlements
      ]_vars

\* C14 witness: two payments interleaved: the first-spawned task is still
\* posting after a failed call while the second one, which has its 2xx, has
\* written its row's processed_by.
C14_Witness ==
    /\ Len(workers) = 2
    /\ workers[1].payment.correlation_id # workers[2].payment.correlation_id
    /\ workers[1].pc = "route" /\ workers[1].attempts > 0
    /\ workers[2].pc = "done" /\ workers[2].accepted_by # 0
    /\ Settled(workers[2].payment.correlation_id)

\* C15: a store call that ends in an error other than the uniqueness
\* conflict, insert or update, leaves the task where it is: same step, same
\* payment, same name to write, and its slot still taken; the same call is
\* the task's next step, however many times it has failed before.
C15_PersistenceRetry ==
    [][\A w \in Tasks, applied \in BOOLEAN :
           (InsertFailed(w, applied) \/ UpdateFailed(w, applied)) =>
               /\ workers' = workers
               /\ in_flight' = in_flight
               /\ w \in Holding
      ]_vars

\* C15 witness: a task is back at its update after a failed call: the
\* store had applied the update (the row carries the name) and the task,
\* the only one of its id, still holds its slot at the reconcile step.
C15_Witness ==
    \E w \in DOMAIN workers :
        /\ workers[w].pc = "reconcile"
        /\ TasksOf(workers[w].payment.correlation_id) = {w}
        /\ Settled(workers[w].payment.correlation_id)
        /\ in_flight >= 1

\* C16: the attempt counter belongs to one routing call: a call of a task
\* counts one attempt of that task and of no other, its target is picked
\* from that task's own count (the first entry of the registry on its first
\* attempt, whatever the other tasks have tried), and it leaves every other
\* task as it was.
C16_AttemptLocality ==
    [][\A w \in DOMAIN workers :
           workers'[w].attempts # workers[w].attempts =>
               /\ workers'[w].attempts = workers[w].attempts + 1
               /\ workers'[w].tried =
                      Append(workers[w].tried,
                             (workers[w].attempts
                                  % Len(external_processors)) + 1)
               /\ workers[w].attempts = 0 => workers'[w].tried = <<1>>
               /\ \A v \in DOMAIN workers \ {w} : workers'[v] = workers[v]
      ]_vars

\* C16 witness: one task has failed once and stands before the second
\* processor while another task has made its first call, to the first one.
C16_Witness ==
    \E w, v \in DOMAIN workers :
        /\ w # v
        /\ workers[w].pc = "route" /\ workers[w].tried = <<1>>
        /\ workers[v].tried = <<1>>
        /\ external_processors # <<>>

\* C17: producers are never held back: while the receiving half lives, a
\* POST is accepted into the channel whatever the channel holds and whatever
\* the counter reads, and a non-empty channel can always be drained; a
\* drain empties the channel and spawns, in order, exactly one task per
\* payment it held, each starting at the gate, without touching the counter
\* or any task spawned before.
C17_DispatchNonBlocking ==
    /\ [](receiver_open =>
              /\ queue # <<>> => ENABLED run_forever
              /\ Submitted < MaxSubmissions =>
                     \A id \in CorrelationIds, p \in PaymentInputs :
                         ENABLED (/\ new_payment(id, p.amount, p.requested_at)
                                  /\ Len(queue') = Len(queue) + 1))
    /\ [][(Len(workers') # Len(workers) \/ Len(queue') < Len(queue)) =>
              /\ queue # <<>> /\ queue' = <<>>
              /\ Len(workers') = Len(workers) + Len(queue)
              /\ \A w \in DOMAIN workers : workers'[w] = workers[w]
              /\ \A i \in DOMAIN queue :
                     /\ workers'[Len(workers) + i].payment = queue[i]
                     /\ workers'[Len(workers) + i].pc = "gate"
              /\ in_flight' = in_flight
         ]_<<queue, workers, in_flight, receiver_open>>

\* C17 witness: the counter is at the limit, a task spawned earlier holds
\* the slot, and a POST has just been accepted into the channel, from which
\* it can be drained.
C17_Witness ==
    /\ in_flight >= max_in_flight
    /\ Holding # {}
    /\ queue # <<>>
    /\ status = "CREATED"

\* the larger of two naturals
Max(a, b) == IF a >= b THEN a ELSE b

\* C18: after its failed attempt k (0-indexed) a routing call sleeps
\* max(k + 1, max_wait_millis) milliseconds before attempt k + 1: one sleep
\* per failed attempt and none after the 2xx, never shorter than
\* max_wait_millis, never shorter than the sleep before it.
C18_Backoff ==
    \A w \in DOMAIN workers :
        LET waited == workers[w].waited
            failed == IF workers[w].accepted_by # 0
                      THEN workers[w].attempts - 1
                      ELSE workers[w].attempts
        IN /\ Len(waited) = failed
           /\ \A k \in 0..(failed - 1) :
                  /\ waited[k + 1] = Max(k + 1, max_wait_millis)
                  /\ waited[k + 1] >= max_wait_millis
                  /\ k > 0 => waited[k + 1] >= waited[k]

\* C18 witness: a routing call that failed three times and then got its
\* 2xx: it slept the floor twice, then longer than the floor, and not at
\* all after the success.
C18_Witness ==
    \E w \in DOMAIN workers :
        /\ workers[w].attempts = 4
        /\ workers[w].accepted_by # 0
        /\ Len(workers[w].waited) = 3
        /\ workers[w].waited[1] = max_wait_millis
        /\ workers[w].waited[3] > max_wait_millis

(* --------------------------- settlement claims ------------------------ *)

\* the tasks of an id whose insert step has not returned yet
StillPersisting(id) == {w \in TasksOf(id) : workers[w].inserted = "pending"}

\* C19: a row in the table has its routing task: never two tasks of an id
\* go from the insert to routing, and once every task of the id has left its
\* insert step exactly one of them has gone on to routing, whatever store
\* errors the inserts met on the way.
C19_NoLostPayment ==
    \A id \in CorrelationIds :
        RowsOf(id) # {} =>
            /\ Cardinality(Winners(id)) <= 1
            /\ StillPersisting(id) = {} => Cardinality(Winners(id)) = 1

\* the processors that have accepted the payment of an id
AcceptedBy(id) == {n \in ProcessorNames : <<id, n>> \in settlements}

\* C20: for every correlation id at most one processor ever accepts the
\* payment, also when the client gave a call up that the processor had
\* accepted and the router went on to the next target.
C20_NoDoubleSettlement ==
    \A id \in CorrelationIds : Cardinality(AcceptedBy(id)) <= 1

====
